---- MODULE Spec2Model ----
(***************************************************************************)
(* Model of the three grid solvers of pathfinder/algorithms: Dijkstra,     *)
(* Astar and BiDijkstra, with the helpers of algo_utils.  A position is    *)
(* the pair <<i, j>> the constructors give to grid[i, j], so the first     *)
(* coordinate ranges over row_amount and the second over column_amount.    *)
(* Each call of solve() and each call of backtrack_path() is one step.     *)
(***************************************************************************)
EXTENDS Integers, Sequences, FiniteSets, TLC

VARIABLES start_pos, end_pos, row_amount, column_amount, wall_pos,
          dij, ast, bi, dijkstra_1, disjktra_2, again, ui

inputs == <<start_pos, end_pos, row_amount, column_amount, wall_pos>>
vars == <<start_pos, end_pos, row_amount, column_amount, wall_pos,
          dij, ast, bi, dijkstra_1, disjktra_2, again, ui>>

(* Bounds of the enumerated inputs: cells of the grid, walls on it. *)
MaxCells == 6
MaxWalls == 2

(* float("inf"): absorbing under addition, equal to itself, and above every *)
(* cost and every cost ratio of the grids considered.                      *)
Inf == 1000000
(* float("nan"), the value of inf / inf in the cost-ratio map. *)
NaN == 0 - 1

Add(a, b) == IF a = Inf \/ b = Inf THEN Inf ELSE a + b

Abs(x) == IF x < 0 THEN 0 - x ELSE x

Range(s) == {s[i] : i \in DOMAIN s}

(* The positions of the nodes of the grid: grid[i, j] = Node((i, j), ...). *)
Grid == (0 .. row_amount - 1) \X (0 .. column_amount - 1)

(* Order in which "for column in grid: for node in column" meets the nodes. *)
GridBefore(p, q) == p[1] < q[1] \/ (p[1] = q[1] /\ p[2] < q[2])

(* min(node_list, key=...) over the nodes of S listed in grid order: the    *)
(* first node, in grid order, whose key is the smallest.                    *)
GridMin(S, key) ==
    CHOOSE p \in S : \A q \in S \ {p} :
        key[p] < key[q] \/ (key[p] = key[q] /\ GridBefore(p, q))

(* get_smallest_g_cost_unvisited_node taking the last node of the grid     *)
(* order among those of smallest g_cost.                                   *)
get_last_smallest_g_cost_unvisited_node(g, unvisited_pos) ==
    CHOOSE p \in unvisited_pos : \A q \in unvisited_pos \ {p} :
        g[p] < g[q] \/ (g[p] = g[q] /\ GridBefore(q, p))

get_smallest_g_cost_unvisited_node(g, unvisited_pos) == GridMin(unvisited_pos, g)

(* get_neighbours without the test "neighbor not in wall_pos". *)
get_neighbours_through_walls(pos) ==
    {q \in {<<pos[1] + 1, pos[2]>>, <<pos[1] - 1, pos[2]>>,
            <<pos[1], pos[2] + 1>>, <<pos[1], pos[2] - 1>>} :
        /\ 0 <= q[1] /\ q[1] < row_amount
        /\ 0 <= q[2] /\ q[2] < column_amount}

get_neighbours(pos) ==
    {q \in {<<pos[1] + 1, pos[2]>>, <<pos[1] - 1, pos[2]>>,
            <<pos[1], pos[2] + 1>>, <<pos[1], pos[2] - 1>>} :
        /\ 0 <= q[1] /\ q[1] < row_amount
        /\ 0 <= q[2] /\ q[2] < column_amount
        /\ q \notin wall_pos}

(* The grid of pathfinder/algorithm/bidijkstra.py, the package ui.py       *)
(* imports: grid[row][column] = Node((column, row), ...).                  *)
BiDijkstra_grid == (0 .. column_amount - 1) \X (0 .. row_amount - 1)

(* BiDijkstra.get_neighbours of that package: the nodes of its grid whose  *)
(* pos is in neighbours_pos.                                               *)
BiDijkstra_get_neighbours(pos) ==
    LET neighbours_pos ==
            {neighbor \in {<<pos[1] + 1, pos[2]>>, <<pos[1] - 1, pos[2]>>,
                           <<pos[1], pos[2] + 1>>, <<pos[1], pos[2] - 1>>} :
                /\ 0 <= neighbor[1] /\ neighbor[1] < column_amount
                /\ 0 <= neighbor[2] /\ neighbor[2] < row_amount
                /\ neighbor \notin wall_pos}
    IN  {node \in BiDijkstra_grid : node \in neighbours_pos}

(* The orders in which a set of nodes can be iterated: Node objects hash by *)
(* identity, so the order differs from one instance to the next.            *)
Orders(S) ==
    {s \in [1 .. Cardinality(S) -> S] : \A i, j \in DOMAIN s : i # j => s[i] # s[j]}

(* min(list, key=g): the first element of the list with the smallest key.   *)
ListMin(list, key) ==
    list[CHOOSE i \in DOMAIN list : \A j \in DOMAIN list :
            key[list[i]] < key[list[j]] \/ (key[list[i]] = key[list[j]] /\ i <= j)]

(* self.mix.update({pos: g_cost}) for every pos of touched. *)
MixUpdate(mix, touched, g) ==
    [p \in (DOMAIN mix) \cup touched |-> IF p \in touched THEN g[p] ELSE mix[p]]

(* round((value * 1.0) / norm, 3), in thousandths; norm is not 0.  No value *)
(* of a grid this small falls half way between two thousandths.             *)
Ratio(value, norm) ==
    IF value = Inf /\ norm = Inf THEN NaN
    ELSE IF value = Inf THEN Inf
    ELSE IF norm = Inf THEN 0
    ELSE (2000 * value + norm) \div (2 * norm)

MixNormalise(mix, norm) == [p \in DOMAIN mix |-> Ratio(mix[p], norm)]

EmptyMix == [p \in {} |-> 0]

(* None: middle_node before the meeting, current_node before the first    *)
(* call of solve().                                                        *)
None == <<>>

(* The state of a solver that has not been constructed. *)
Idle == [pc |-> "idle"]

Running(s) == s.pc \in {"solve", "backtrack"}

----
(* Dijkstra *)

DijkstraInit(s, e) ==
    [start_pos |-> s, end_pos |-> e,
     g |-> [p \in Grid |-> IF p = s THEN 0 ELSE Inf],
     unvisited_pos |-> Grid,
     visited_pos |-> <<>>,
     path |-> <<>>,
     mix |-> EmptyMix,
     current |-> e,
     current_node |-> None,
     pc |-> "solve",
     fault |-> "none"]

(* g_cost of self.end_node: a node of the grid, or the detached node of the *)
(* constructor when end_pos is no position of the grid.                     *)
DijkstraEndCost(d, g) == IF d.end_pos \in Grid THEN g[d.end_pos] ELSE Inf

DijkstraSolve(d) ==
    IF d.unvisited_pos = {}
    THEN [d EXCEPT !.pc = "fault", !.fault = "ValueError"]
    ELSE
    LET current_node == get_smallest_g_cost_unvisited_node(d.g, d.unvisited_pos)
    IN  IF d.g[current_node] = Inf
        THEN [d EXCEPT !.current_node = current_node, !.pc = "done"]
        ELSE
        LET new_dist == d.g[current_node] + 1
            relaxed == {n \in get_neighbours(current_node) : ~(d.g[n] < new_dist)}
            g1 == [p \in Grid |-> IF p \in relaxed THEN new_dist ELSE d.g[p]]
            mix1 == MixUpdate(d.mix, relaxed \cup {current_node}, g1)
            d1 == [d EXCEPT !.current_node = current_node, !.g = g1, !.mix = mix1]
            unvisited1 == d.unvisited_pos \ {current_node}
        IN  IF \/ d.end_pos \notin d.unvisited_pos
               \/ g1[get_smallest_g_cost_unvisited_node(g1, d.unvisited_pos)] = Inf
            THEN IF DijkstraEndCost(d, g1) = 0
                 THEN [d1 EXCEPT !.pc = "fault", !.fault = "ZeroDivisionError"]
                 ELSE [d1 EXCEPT !.mix = MixNormalise(mix1, DijkstraEndCost(d, g1)),
                                 !.current = d.end_pos,
                                 !.pc = "backtrack"]
            ELSE
            LET d2 == [d1 EXCEPT !.unvisited_pos = unvisited1,
                                 !.visited_pos = Append(d.visited_pos, current_node)]
            IN  IF unvisited1 = {}
                THEN [d2 EXCEPT !.pc = "fault", !.fault = "ValueError"]
                ELSE d2

(* backtrack_path with self.path.append(current_node.pos) in place of      *)
(* self.path.insert(0, current_node.pos).                                  *)
DijkstraBacktrackAppend(d) ==
    LET path1 == d.path \o <<d.current>>
        neighbours == get_neighbours(d.current)
        d1 == [d EXCEPT !.path = path1]
    IN  IF neighbours = {}
        THEN {[d1 EXCEPT !.pc = "fault", !.fault = "ValueError"]}
        ELSE IF d.start_pos \in Range(path1)
        THEN {[d1 EXCEPT !.pc = "done"]}
        ELSE {IF ListMin(o, d.g) \in Range(path1)
              THEN [d1 EXCEPT !.pc = "fault", !.fault = "RecursionError"]
              ELSE [d1 EXCEPT !.current = ListMin(o, d.g)] : o \in Orders(neighbours)}

(* One call of backtrack_path(current): the states it can lead to, one for  *)
(* each node min() can return over the neighbour set.  A node chosen twice  *)
(* is chosen for ever, which ends in RecursionError.                        *)
DijkstraBacktrack(d) ==
    LET path1 == <<d.current>> \o d.path
        neighbours == get_neighbours(d.current)
        d1 == [d EXCEPT !.path = path1]
    IN  IF neighbours = {}
        THEN {[d1 EXCEPT !.pc = "fault", !.fault = "ValueError"]}
        ELSE IF d.start_pos \in Range(path1)
        THEN {[d1 EXCEPT !.pc = "done"]}
        ELSE {IF ListMin(o, d.g) \in Range(path1)
              THEN [d1 EXCEPT !.pc = "fault", !.fault = "RecursionError"]
              ELSE [d1 EXCEPT !.current = ListMin(o, d.g)] : o \in Orders(neighbours)}

DijkstraStep(d) ==
    IF d.pc = "solve" THEN {DijkstraSolve(d)} ELSE DijkstraBacktrack(d)

----
(* Astar *)

(* set_h_cost: the Manhattan distance to self.end_node.pos. *)
HCost(pos) == Abs(pos[1] - end_pos[1]) + Abs(pos[2] - end_pos[2])

AstarInit ==
    [g |-> [p \in Grid |-> IF p = start_pos THEN 0 ELSE Inf],
     h |-> [p \in Grid |-> IF p = start_pos THEN HCost(p) ELSE Inf],
     unvisited_pos |-> Grid,
     visited_pos |-> <<>>,
     path |-> <<>>,
     mix |-> EmptyMix,
     current |-> end_pos,
     current_node |-> None,
     pc |-> "solve",
     fault |-> "none"]

(* Node.f_cost *)
FCost(g, h) == [p \in Grid |-> Add(g[p], h[p])]

get_smallest_h_cost_unvisited_node(h, unvisited_pos) == GridMin(unvisited_pos, h)

(* The node returned is the unvisited node of smallest g_cost; the count is *)
(* the number of unvisited nodes whose f_cost equals that node's f_cost.    *)
get_smallest_f_cost_unvisited_node(g, h, unvisited_pos) ==
    LET min_f_cost_node == GridMin(unvisited_pos, g)
        min_f_cost_list == {p \in unvisited_pos : FCost(g, h)[p] = FCost(g, h)[min_f_cost_node]}
    IN  <<min_f_cost_node, Cardinality(min_f_cost_list)>>

(* The node solve() expands. *)
AstarCurrent(g, h, unvisited_pos) ==
    LET smallest_f == get_smallest_f_cost_unvisited_node(g, h, unvisited_pos)
    IN  IF smallest_f[2] > 1
        THEN get_smallest_h_cost_unvisited_node(h, unvisited_pos)
        ELSE smallest_f[1]

AstarEndCost(g) == IF end_pos \in Grid THEN g[end_pos] ELSE Inf

AstarSolve(a) ==
    IF a.unvisited_pos = {}
    THEN [a EXCEPT !.pc = "fault", !.fault = "ValueError"]
    ELSE
    LET current_node == AstarCurrent(a.g, a.h, a.unvisited_pos)
    IN  IF Add(a.g[current_node], a.h[current_node]) = Inf
        THEN [a EXCEPT !.current_node = current_node, !.pc = "done"]
        ELSE
        LET unvisited1 == a.unvisited_pos \ {current_node}
            visited1 == Append(a.visited_pos, current_node)
            new_dist == a.g[current_node] + 1
            relaxed == {n \in get_neighbours(current_node) : ~(a.g[n] < new_dist)}
            g1 == [p \in Grid |-> IF p \in relaxed THEN new_dist ELSE a.g[p]]
            h1 == [p \in Grid |-> IF p \in relaxed \cup {current_node}
                                  THEN HCost(p) ELSE a.h[p]]
            mix1 == MixUpdate(a.mix, relaxed \cup {current_node}, g1)
            a1 == [a EXCEPT !.current_node = current_node,
                            !.g = g1, !.h = h1, !.mix = mix1,
                            !.unvisited_pos = unvisited1, !.visited_pos = visited1]
        IN  IF unvisited1 = {}
            THEN [a1 EXCEPT !.pc = "fault", !.fault = "ValueError"]
            ELSE IF \/ end_pos \notin unvisited1
                    \/ g1[get_smallest_g_cost_unvisited_node(g1, unvisited1)] = Inf
            THEN IF AstarEndCost(g1) = 0
                 THEN [a1 EXCEPT !.pc = "fault", !.fault = "ZeroDivisionError"]
                 ELSE [a1 EXCEPT !.mix = MixNormalise(mix1, AstarEndCost(g1)),
                                 !.current = end_pos,
                                 !.pc = "backtrack"]
            ELSE a1

(* "for each in n_copy: if each.pos not in self.visited_pos:               *)
(* n_copy.remove(each)": the loop index moves on after a removal, so the   *)
(* element that follows a removed one is never looked at.                  *)
RECURSIVE RemoveUnvisited(_, _, _)
RemoveUnvisited(n_copy, i, visited) ==
    IF i > Len(n_copy) THEN n_copy
    ELSE IF n_copy[i] \notin visited
    THEN RemoveUnvisited(SubSeq(n_copy, 1, i - 1) \o SubSeq(n_copy, i + 1, Len(n_copy)),
                         i + 1, visited)
    ELSE RemoveUnvisited(n_copy, i + 1, visited)

AstarBacktrack(a) ==
    LET path1 == <<a.current>> \o a.path
        a1 == [a EXCEPT !.path = path1]
    IN  {LET neighbours == RemoveUnvisited(o, 1, Range(a.visited_pos))
         IN  IF neighbours = <<>>
             THEN [a1 EXCEPT !.pc = "fault", !.fault = "ValueError"]
             ELSE IF start_pos \in Range(path1)
             THEN [a1 EXCEPT !.pc = "done"]
             ELSE IF ListMin(neighbours, a.g) \in Range(path1)
             THEN [a1 EXCEPT !.pc = "fault", !.fault = "RecursionError"]
             ELSE [a1 EXCEPT !.current = ListMin(neighbours, a.g)]
         : o \in Orders(get_neighbours(a.current))}

AstarStep(a) ==
    IF a.pc = "solve" THEN {AstarSolve(a)} ELSE AstarBacktrack(a)

----
(* BiDijkstra *)

BiDijkstraInit ==
    [g |-> [p \in Grid |-> IF p = start_pos \/ p = end_pos THEN 0 ELSE Inf],
     parent |-> [p \in Grid |-> IF p = end_pos THEN "end"
                                ELSE IF p = start_pos THEN "start" ELSE "none"],
     unvisited_pos |-> Grid,
     visited_pos |-> <<>>,
     path |-> <<>>,
     mix |-> EmptyMix,
     middle_node |-> None,
     current_node |-> None,
     pc |-> "solve",
     fault |-> "none"]

(* BiRelax without the "break": the loop goes on after the meeting. *)
RECURSIVE BiRelaxNoBreak(_, _, _, _)
BiRelaxNoBreak(b, current_node, o, i) ==
    IF i > Len(o) THEN b
    ELSE
    LET each == o[i]
        new_dist == b.g[current_node] + 1
    IN  IF b.parent[each] # "none" /\ b.parent[each] # b.parent[current_node]
        THEN BiRelaxNoBreak([b EXCEPT !.middle_node = each,
                                      !.visited_pos = Append(b.visited_pos, each)],
                            current_node, o, i + 1)
        ELSE IF b.g[each] < new_dist
        THEN BiRelaxNoBreak(b, current_node, o, i + 1)
        ELSE BiRelaxNoBreak([b EXCEPT !.g[each] = new_dist,
                                      !.parent[each] = b.parent[current_node],
                                      !.mix = MixUpdate(b.mix, {each}, [p \in {each} |-> new_dist])],
                            current_node, o, i + 1)

(* "for each in neighbours" from the i-th neighbour of the order o on: the  *)
(* loop stops at the first neighbour tagged with the other side.            *)
RECURSIVE BiRelax(_, _, _, _)
BiRelax(b, current_node, o, i) ==
    IF i > Len(o) THEN b
    ELSE
    LET each == o[i]
        new_dist == b.g[current_node] + 1
    IN  IF b.parent[each] # "none" /\ b.parent[each] # b.parent[current_node]
        THEN [b EXCEPT !.middle_node = each,
                       !.visited_pos = Append(b.visited_pos, each)]
        ELSE IF b.g[each] < new_dist
        THEN BiRelax(b, current_node, o, i + 1)
        ELSE BiRelax([b EXCEPT !.g[each] = new_dist,
                               !.parent[each] = b.parent[current_node],
                               !.mix = MixUpdate(b.mix, {each}, [p \in {each} |-> new_dist])],
                     current_node, o, i + 1)

(* One call of BiDijkstra.solve() up to the construction of the two         *)
(* Dijkstra instances: the states it can lead to, one for each order of the *)
(* neighbour set.  pc "dijkstra_1" stands at the call dijkstra_1.solve().   *)
BiDijkstraSolve(b) ==
    IF b.unvisited_pos = {}
    THEN {[b EXCEPT !.pc = "fault", !.fault = "ValueError"]}
    ELSE
    LET current_node == get_smallest_g_cost_unvisited_node(b.g, b.unvisited_pos)
    IN  IF b.g[current_node] = Inf
        THEN {[b EXCEPT !.current_node = current_node, !.pc = "done"]}
        ELSE
        {LET b1 == BiRelax(b, current_node, o, 1)
             b2 == [b1 EXCEPT !.current_node = current_node,
                              !.mix = MixUpdate(b1.mix, {current_node}, b1.g)]
             unvisited1 == b.unvisited_pos \ {current_node}
         IN  IF b2.middle_node # None
             THEN [b2 EXCEPT !.visited_pos = Append(b2.visited_pos, current_node),
                             !.pc = "dijkstra_1"]
             ELSE [b2 EXCEPT !.unvisited_pos = unvisited1,
                             !.visited_pos = Append(b2.visited_pos, current_node),
                             !.pc = IF unvisited1 # {} THEN "solve" ELSE "done"]
         : o \in Orders(get_neighbours(current_node))}

(* The end of BiDijkstra.solve() once disjktra_2.solve() has returned.     *)
BiDijkstraJoin(b, d1, d2) ==
    LET b1 == [b EXCEPT !.path = d1.path \o d2.path]
    IN  IF b.g[b.middle_node] = 0
        THEN [b1 EXCEPT !.pc = "fault", !.fault = "ZeroDivisionError"]
        ELSE [b1 EXCEPT !.mix = MixNormalise(b.mix, b.g[b.middle_node]),
                        !.pc = "done"]

----
(* Inputs *)

Cells(R, C) == (0 .. R - 1) \X (0 .. C - 1)

(* Positions a caller can pass: the cells, the cell the UI reports for a    *)
(* click outside the grid, and a cell one row below the grid.               *)
Positions(R, C) == Cells(R, C) \cup {<<0 - 1, 0 - 1>>, <<R, 0>>}

WallSets(R, C) == {W \in SUBSET Cells(R, C) : Cardinality(W) <= MaxWalls}

(* Section 8 of the specification: 5 columns, 3 rows. *)
ScenarioInputs ==
    /\ row_amount = 3
    /\ column_amount = 5
    /\ start_pos = <<0, 1>>
    /\ end_pos = <<2, 1>>
    /\ wall_pos = {<<0, 2>>, <<1, 2>>}

(* A grid on which the h_cost selection of Astar leaves the shortest route. *)
DetourInputs ==
    /\ row_amount = 4
    /\ column_amount = 4
    /\ start_pos = <<3, 3>>
    /\ end_pos = <<1, 0>>
    /\ wall_pos = {<<1, 1>>}

(* A grid on which Astar expands a node before a shorter route to it is    *)
(* found: the end lies behind a wall across both rows.                     *)
DeadEndInputs ==
    /\ row_amount = 2
    /\ column_amount = 6
    /\ start_pos = <<1, 1>>
    /\ end_pos = <<0, 5>>
    /\ wall_pos = {<<0, 4>>, <<1, 4>>}

EnumeratedInputs ==
    /\ row_amount \in 1 .. MaxCells
    /\ column_amount \in 1 .. MaxCells
    /\ row_amount * column_amount <= MaxCells
    /\ wall_pos \in WallSets(row_amount, column_amount)
    /\ start_pos \in Positions(row_amount, column_amount)
    /\ end_pos \in Positions(row_amount, column_amount)

(* Three fresh instances on the same inputs; solve() is then called on each *)
(* in turn.                                                                 *)
Init ==
    /\ EnumeratedInputs \/ ScenarioInputs \/ DetourInputs \/ DeadEndInputs
    /\ dij = DijkstraInit(start_pos, end_pos)
    /\ ast = AstarInit
    /\ bi = BiDijkstraInit
    /\ dijkstra_1 = Idle
    /\ disjktra_2 = Idle
    /\ again = Idle
    /\ ui = Idle

(* Two fresh instances of Dijkstra and of Astar on the same inputs, start   *)
(* and end being cells without a wall.                                     *)
InitTwice ==
    /\ EnumeratedInputs
    /\ {start_pos, end_pos} \subseteq Cells(row_amount, column_amount) \ wall_pos
    /\ dij = DijkstraInit(start_pos, end_pos)
    /\ ast = AstarInit
    /\ again = [dij |-> DijkstraInit(start_pos, end_pos), ast |-> AstarInit]
    /\ bi = Idle
    /\ dijkstra_1 = Idle
    /\ disjktra_2 = Idle
    /\ ui = Idle

(* Whose solve() is running: the instances are solved one after another. *)
Turn ==
    IF Running(dij) THEN "dij"
    ELSE IF again # Idle /\ Running(again.dij) THEN "again.dij"
    ELSE IF Running(ast) THEN "ast"
    ELSE IF again # Idle /\ Running(again.ast) THEN "again.ast"
    ELSE IF bi.pc \in {"solve", "dijkstra_1", "disjktra_2"} THEN "bi"
    ELSE "none"

----
(* Steps *)

DijkstraSolveStep ==
    /\ Turn = "dij" /\ dij.pc = "solve"
    /\ dij' = DijkstraSolve(dij)
    /\ UNCHANGED <<inputs, ui, ast, bi, dijkstra_1, disjktra_2, again>>

DijkstraBacktrackStep ==
    /\ Turn = "dij" /\ dij.pc = "backtrack"
    /\ dij' \in DijkstraBacktrack(dij)
    /\ UNCHANGED <<inputs, ui, ast, bi, dijkstra_1, disjktra_2, again>>

AstarSolveStep ==
    /\ Turn = "ast" /\ ast.pc = "solve"
    /\ ast' = AstarSolve(ast)
    /\ UNCHANGED <<inputs, ui, dij, bi, dijkstra_1, disjktra_2, again>>

AstarBacktrackStep ==
    /\ Turn = "ast" /\ ast.pc = "backtrack"
    /\ ast' \in AstarBacktrack(ast)
    /\ UNCHANGED <<inputs, ui, dij, bi, dijkstra_1, disjktra_2, again>>

(* BiDijkstra.solve() up to the meeting; at the meeting the two Dijkstra    *)
(* instances are constructed.                                               *)
BiDijkstraSolveStep ==
    /\ Turn = "bi" /\ bi.pc = "solve"
    /\ bi' \in BiDijkstraSolve(bi)
    /\ IF bi'.pc = "dijkstra_1"
       THEN /\ dijkstra_1' = DijkstraInit(start_pos, bi'.middle_node)
            /\ disjktra_2' = DijkstraInit(bi'.middle_node, end_pos)
       ELSE UNCHANGED <<dijkstra_1, disjktra_2>>
    /\ UNCHANGED <<inputs, ui, dij, ast, again>>

(* dijkstra_1.solve(): a fault of the instance is a fault of BiDijkstra. *)
BiDijkstra1Step ==
    /\ Turn = "bi" /\ bi.pc = "dijkstra_1"
    /\ dijkstra_1' \in DijkstraStep(dijkstra_1)
    /\ bi' = IF dijkstra_1'.pc = "fault"
             THEN [bi EXCEPT !.pc = "fault", !.fault = dijkstra_1'.fault]
             ELSE IF dijkstra_1'.pc = "done"
             THEN [bi EXCEPT !.pc = "disjktra_2"]
             ELSE bi
    /\ UNCHANGED <<inputs, ui, dij, ast, disjktra_2, again>>

(* disjktra_2.solve(), then the concatenation of the two paths. *)
BiDijkstra2Step ==
    /\ Turn = "bi" /\ bi.pc = "disjktra_2"
    /\ disjktra_2' \in DijkstraStep(disjktra_2)
    /\ bi' = IF disjktra_2'.pc = "fault"
             THEN [bi EXCEPT !.pc = "fault", !.fault = disjktra_2'.fault]
             ELSE IF disjktra_2'.pc = "done"
             THEN BiDijkstraJoin(bi, dijkstra_1, disjktra_2')
             ELSE bi
    /\ UNCHANGED <<inputs, ui, dij, ast, dijkstra_1, again>>

AgainDijkstraStep ==
    /\ Turn = "again.dij"
    /\ \E d \in DijkstraStep(again.dij) : again' = [again EXCEPT !.dij = d]
    /\ UNCHANGED <<inputs, ui, dij, ast, bi, dijkstra_1, disjktra_2>>

AgainAstarStep ==
    /\ Turn = "again.ast"
    /\ \E a \in AstarStep(again.ast) : again' = [again EXCEPT !.ast = a]
    /\ UNCHANGED <<inputs, ui, dij, ast, bi, dijkstra_1, disjktra_2>>

Next ==
    \/ DijkstraSolveStep
    \/ DijkstraBacktrackStep
    \/ AstarSolveStep
    \/ AstarBacktrackStep
    \/ BiDijkstraSolveStep
    \/ BiDijkstra1Step
    \/ BiDijkstra2Step

NextTwice ==
    \/ DijkstraSolveStep
    \/ DijkstraBacktrackStep
    \/ AgainDijkstraStep
    \/ AstarSolveStep
    \/ AstarBacktrackStep
    \/ AgainAstarStep

Spec == Init /\ [][Next]_vars

SpecTwice == InitTwice /\ [][NextTwice]_vars

----
(* The window of pathfinder/ui.py: DrawGrid and the controls wired to it.  *)
(* Here start_pos, end_pos, wall_pos, row_amount and column_amount are the *)
(* fields of DrawGrid, and ui holds its other fields with the calls of     *)
(* solve_algorithm that have not returned.                                 *)

(* Side of the square grid of the window, how many calls of                *)
(* solve_algorithm can be open at once, and how many events of the mouse,  *)
(* the buttons and the list the event loop dispatches.                     *)
MaxSide == 2
MaxDepth == 2
MaxEvents == 7

(* solve() from its first call to its return or its exception: the states  *)
(* the instance can be left in.                                            *)
RECURSIVE DijkstraRun(_)
DijkstraRun(d) ==
    IF Running(d) THEN UNION {DijkstraRun(x) : x \in DijkstraStep(d)} ELSE {d}

RECURSIVE AstarRun(_)
AstarRun(a) ==
    IF Running(a) THEN UNION {AstarRun(x) : x \in AstarStep(a)} ELSE {a}

RECURSIVE BiDijkstraRun(_)
BiDijkstraRun(b) ==
    IF b.pc = "solve" THEN UNION {BiDijkstraRun(x) : x \in BiDijkstraSolve(b)}
    ELSE IF b.pc = "dijkstra_1"
    THEN UNION {IF d1.pc = "fault"
                THEN {[b EXCEPT !.pc = "fault", !.fault = d1.fault]}
                ELSE {IF d2.pc = "fault"
                      THEN [b EXCEPT !.pc = "fault", !.fault = d2.fault]
                      ELSE BiDijkstraJoin(b, d1, d2)
                      : d2 \in DijkstraRun(DijkstraInit(b.middle_node, end_pos))}
                : d1 \in DijkstraRun(DijkstraInit(start_pos, b.middle_node))}
    ELSE {b}

algorithm_type == {"A*", "Dijkstra", "Bidirectionnal Dijkstra"}

(* self.algorithm.solve() on the instance set_algorithm(value) constructs.  *)
(* The comparison has TLC build the cost and parent maps of the new        *)
(* instance before solve() updates them entry by entry.                    *)
Solved(value) ==
    IF value = "Dijkstra" THEN DijkstraRun(DijkstraInit(start_pos, end_pos))
    ELSE IF value = "A*" THEN AstarRun(AstarInit)
    ELSE LET b == BiDijkstraInit
         IN  IF b = b THEN BiDijkstraRun(b) ELSE {}

(* What the window reads of a solver instance.  The constructors keep the  *)
(* set they are given (self.wall_pos = wall_pos): aliased tells that the   *)
(* wall set of the instance is the very set DrawGrid.wall_pos refers to.   *)
Instance(value, visited_pos, path, pc) ==
    [value |-> value, wall_pos |-> wall_pos, aliased |-> TRUE,
     visited_pos |-> visited_pos, path |-> path, pc |-> pc]

(* The instance after the set of DrawGrid.wall_pos has become walls. *)
Aliased(instance, walls) ==
    IF instance # Idle /\ instance.aliased
    THEN [instance EXCEPT !.wall_pos = walls]
    ELSE instance

(* The instance after DrawGrid.wall_pos has been bound to another set. *)
Detached(instance) ==
    IF instance # Idle THEN [instance EXCEPT !.aliased = FALSE] ELSE instance

(* DrawGrid.__init__ as ShortestPathVisualizer calls it, and the size      *)
(* draw_rectangles gives the grid.                                         *)
InitUi ==
    /\ start_pos = <<0 - 1, 0 - 1>>
    /\ end_pos = <<0 - 1, 0 - 1>>
    /\ wall_pos = {}
    /\ row_amount = MaxSide
    /\ column_amount = MaxSide
    /\ ui = [current |-> "None", click |-> "None", algorithm_value |-> "A*",
             visited_pos |-> <<>>, shortest_path |-> <<>>,
             algorithm |-> Idle, calls |-> <<>>, events |-> 0]
    /\ dij = Idle
    /\ ast = Idle
    /\ bi = Idle
    /\ dijkstra_1 = Idle
    /\ disjktra_2 = Idle
    /\ again = Idle

solvers == <<dij, ast, bi, dijkstra_1, disjktra_2, again>>

(* get_clicked_cell: a cell of the grid, or (-1, -1) outside of it. *)
get_clicked_cell == Cells(row_amount, column_amount) \cup {<<0 - 1, 0 - 1>>}

(* mousePressEvent and mouseMoveEvent: set_current_coordinates on the cell *)
(* under the mouse, then self.click from the button of the event.  In the  *)
(* mode "wall" the cell is added to the set of wall_pos, and removed again *)
(* when the click before this one was a right click; the set is changed in *)
(* place, so every instance that keeps it sees the change.                 *)
mousePressEvent(coordinates, button) ==
    /\ ui.events < MaxEvents
    /\ IF ui.current = "start"
       THEN start_pos' = coordinates /\ UNCHANGED <<end_pos, wall_pos>>
       ELSE IF ui.current = "end"
       THEN end_pos' = coordinates /\ UNCHANGED <<start_pos, wall_pos>>
       ELSE IF ui.current = "wall"
       THEN /\ wall_pos' = IF ui.click = "right"
                           THEN wall_pos \ {coordinates}
                           ELSE wall_pos \cup {coordinates}
            /\ Cardinality(wall_pos') <= MaxWalls
            /\ UNCHANGED <<start_pos, end_pos>>
       ELSE UNCHANGED <<start_pos, end_pos, wall_pos>>
    /\ ui' = [ui EXCEPT
                !.events = ui.events + 1,
                !.click = IF button = "None" THEN ui.click ELSE button,
                !.algorithm = Aliased(ui.algorithm, wall_pos'),
                !.calls = [k \in DOMAIN ui.calls |->
                              [ui.calls[k] EXCEPT
                                  !.solver = Aliased(ui.calls[k].solver, wall_pos')]]]
    /\ UNCHANGED <<row_amount, column_amount, solvers>>

set_start ==
    /\ ui.events < MaxEvents
    /\ ui' = [ui EXCEPT !.events = ui.events + 1, !.current = "start"]
    /\ UNCHANGED <<inputs, solvers>>

set_end ==
    /\ ui.events < MaxEvents
    /\ ui' = [ui EXCEPT !.events = ui.events + 1, !.current = "end"]
    /\ UNCHANGED <<inputs, solvers>>

set_walls ==
    /\ ui.events < MaxEvents
    /\ ui' = [ui EXCEPT !.events = ui.events + 1, !.current = "wall"]
    /\ UNCHANGED <<inputs, solvers>>

(* set_algorithm(value), called when the text of the list changes. *)
set_algorithm(value) ==
    /\ ui.events < MaxEvents
    /\ value # ui.algorithm_value
    /\ ui' = [ui EXCEPT !.events = ui.events + 1,
                        !.algorithm_value = value,
                        !.algorithm = Instance(value, <<>>, <<>>, "solve")]
    /\ UNCHANGED <<inputs, solvers>>

(* reset_grid: wall_pos is bound to a new set, which no instance keeps. *)
reset_grid ==
    /\ ui.events < MaxEvents
    /\ wall_pos' = {}
    /\ ui' = [ui EXCEPT
                !.events = ui.events + 1,
                !.visited_pos = <<>>,
                !.shortest_path = <<>>,
                !.algorithm = Detached(ui.algorithm),
                !.calls = [k \in DOMAIN ui.calls |->
                              [ui.calls[k] EXCEPT
                                  !.solver = Detached(ui.calls[k].solver)]]]
    /\ UNCHANGED <<start_pos, end_pos, row_amount, column_amount, solvers>>

(* The innermost call of solve_algorithm going on from where it stands to  *)
(* its next update_draw(), or to its return.  A call is at the i-th item   *)
(* of the list its loop runs over; "for each in self.algorithm.path" takes *)
(* the path of the instance self.algorithm refers to when the first loop   *)
(* ends.                                                                   *)
Resume(u) ==
    LET n == Len(u.calls)
        call == u.calls[n]
        return == [u EXCEPT !.calls = SubSeq(u.calls, 1, n - 1)]
    IN  IF call.i < Len(call.list)
        THEN IF call.loop = "visited_pos"
             THEN [u EXCEPT !.visited_pos = Append(u.visited_pos, call.list[call.i + 1]),
                            !.calls[n].i = call.i + 1]
             ELSE [u EXCEPT !.shortest_path = Append(u.shortest_path, call.list[call.i + 1]),
                            !.calls[n].i = call.i + 1]
        ELSE IF call.loop = "visited_pos" /\ u.algorithm.path # <<>>
        THEN [u EXCEPT !.shortest_path = Append(u.shortest_path, u.algorithm.path[1]),
                       !.calls[n] = [call EXCEPT !.loop = "path",
                                                 !.list = u.algorithm.path,
                                                 !.i = 1]]
        ELSE return

(* solve_algorithm up to its first update_draw(): set_algorithm, solve()   *)
(* and the first item copied.  An exception of solve() ends the call.      *)
(* returned is the instance as solve() left it.                            *)
solve_algorithm ==
    /\ ui.events < MaxEvents
    /\ ui.visited_pos = <<>>
    /\ Len(ui.calls) < MaxDepth
    /\ \E s \in Solved(ui.algorithm_value) :
         LET instance == Instance(ui.algorithm_value, s.visited_pos, s.path, s.pc)
             call == [solver |-> instance, returned |-> instance,
                      loop |-> "visited_pos", list |-> s.visited_pos, i |-> 0]
         IN  ui' = IF s.pc = "fault"
                   THEN [ui EXCEPT !.events = ui.events + 1,
                                   !.algorithm = instance]
                   ELSE Resume([ui EXCEPT !.events = ui.events + 1,
                                          !.algorithm = instance,
                                          !.calls = Append(ui.calls, call)])
    /\ UNCHANGED <<inputs, solvers>>

(* update_draw: processEvents() has returned to the innermost call. *)
update_draw ==
    /\ ui.calls # <<>>
    /\ ui' = Resume(ui)
    /\ UNCHANGED <<inputs, solvers>>

NextUi ==
    \/ \E coordinates \in get_clicked_cell, button \in {"left", "right", "None"} :
          mousePressEvent(coordinates, button)
    \/ set_start
    \/ set_end
    \/ set_walls
    \/ \E value \in algorithm_type : set_algorithm(value)
    \/ solve_algorithm
    \/ update_draw
    \/ reset_grid

SpecUi == InitUi /\ [][NextUi]_vars

----
(* Reference notions the properties are stated with *)

FreeCells == Grid \ wall_pos

ValidInputs == start_pos \in FreeCells /\ end_pos \in FreeCells

Manhattan(p, q) == Abs(p[1] - q[1]) + Abs(p[2] - q[2])

Adjacent(p, q) == Manhattan(p, q) = 1

(* Breadth-first search from start_pos over the free cells. *)
RECURSIVE Bfs(_, _, _)
Bfs(frontier, seen, d) ==
    IF end_pos \in frontier THEN d
    ELSE IF frontier = {} THEN Inf
    ELSE LET next == {q \in FreeCells \ seen : \E p \in frontier : Adjacent(p, q)}
         IN  Bfs(next, seen \cup next, d + 1)

ShortestDistance == IF ValidInputs THEN Bfs({start_pos}, {start_pos}, 0) ELSE Inf

Reachable == ValidInputs /\ ShortestDistance < Inf

Finished(s) == s.pc \in {"done", "fault"}

Edges(path) == Len(path) - 1

----
(* Properties *)

(* C1: when end is reachable from start and the three solvers have run to  *)
(* the end of solve() on the same inputs, their paths have the same number *)
(* of positions.                                                           *)
C1_SamePathLength ==
    (Reachable /\ dij.pc = "done" /\ ast.pc = "done" /\ bi.pc = "done")
        => (Len(dij.path) = Len(ast.path) /\ Len(ast.path) = Len(bi.path))

(* C2: when end is reachable from start and start # end, Dijkstra.solve()  *)
(* finishes with a non-empty path whose edge count is the breadth-first    *)
(* distance from start to end.                                             *)
C2_DijkstraShortest ==
    (Reachable /\ start_pos # end_pos /\ Finished(dij))
        => (dij.pc = "done" /\ dij.path # <<>> /\ Edges(dij.path) = ShortestDistance)

(* C3: when end is reachable from start and start # end, Astar.solve()     *)
(* finishes with a non-empty path whose edge count is the breadth-first    *)
(* distance from start to end.                                             *)
C3_AstarShortest ==
    (Reachable /\ start_pos # end_pos /\ Finished(ast))
        => (ast.pc = "done" /\ ast.path # <<>> /\ Edges(ast.path) = ShortestDistance)

(* C4: without walls, each solver finishes with a path whose edge count is *)
(* the Manhattan distance between start and end.                           *)
C4_OpenGridManhattan ==
    (ValidInputs /\ wall_pos = {})
        => \A s \in {dij, ast, bi} :
              Finished(s) => (s.pc = "done" /\ Edges(s.path) = Manhattan(start_pos, end_pos))

(* C5: once solve() has finished, a non-empty path starts at start and     *)
(* ends at end, for each of the three solvers.                             *)
C5_PathEndpoints ==
    \A s \in {dij, ast, bi} :
        (s.pc = "done" /\ s.path # <<>>)
            => (s.path[1] = start_pos /\ s.path[Len(s.path)] = end_pos)

(* C6: when start = end is a free cell, each solver finishes normally with *)
(* path = [start] and visited either [start] or empty.                     *)
C6_StartIsEnd ==
    (ValidInputs /\ start_pos = end_pos)
        => \A s \in {dij, ast, bi} :
              Finished(s) => /\ s.pc = "done"
                             /\ s.path = <<start_pos>>
                             /\ s.visited_pos \in {<<start_pos>>, <<>>}

(* C7: when end cannot be reached from start, each solver finishes without *)
(* a fault and with an empty path, and visited holds the expanded          *)
(* positions, which are then the positions with a finite cost.             *)
C7_UnreachableEmptyPath ==
    (ValidInputs /\ ~Reachable)
        => \A s \in {dij, ast, bi} :
              Finished(s) => /\ s.pc = "done"
                             /\ s.path = <<>>
                             /\ Range(s.visited_pos) = {p \in Grid : s.g[p] < Inf}

(* C8: with start or end outside the grid or on a wall, construction fails *)
(* with InvalidInput: no solver instance exists that could be solved.      *)
C8_InvalidInputRejected ==
    ~ValidInputs => \A s \in {dij, ast, bi} : s.pc = "InvalidInput"

(* C9: two fresh instances of a solver built from identical inputs and     *)
(* each solved once finish with identical path and identical visited       *)
(* sequence.                                                               *)
C9_SameResultTwice ==
    /\ (dij.pc = "done" /\ again.dij.pc = "done")
          => (dij.path = again.dij.path /\ dij.visited_pos = again.dij.visited_pos)
    /\ (ast.pc = "done" /\ again.ast.pc = "done")
          => (ast.path = again.ast.path /\ ast.visited_pos = again.ast.visited_pos)

C11_NoFault ==
    ValidInputs => \A s \in {dij, ast, bi} : s.pc # "fault"

(* The values a normalised cost ratio may take: 0 to 1, in thousandths. *)
UnitRange == 0 .. 1000

(* C12: on valid inputs, once solve() has finished, the mix of each solver *)
(* has been normalised (Dijkstra and Astar normalise on the way to the     *)
(* path reconstruction, BiDijkstra at the meeting), the normaliser (g_cost *)
(* of the end node, of the middle node for BiDijkstra) is finite and not   *)
(* 0, and every value of mix lies in [0, 1].                               *)
C12_MixInUnitRange ==
    ValidInputs =>
        /\ dij.pc = "done" =>
              /\ dij.path # <<>>
              /\ DijkstraEndCost(dij, dij.g) \in 1 .. Inf - 1
              /\ \A p \in DOMAIN dij.mix : dij.mix[p] \in UnitRange
        /\ ast.pc = "done" =>
              /\ ast.path # <<>>
              /\ AstarEndCost(ast.g) \in 1 .. Inf - 1
              /\ \A p \in DOMAIN ast.mix : ast.mix[p] \in UnitRange
        /\ bi.pc = "done" =>
              /\ bi.middle_node # None
              /\ bi.g[bi.middle_node] \in 1 .. Inf - 1
              /\ \A p \in DOMAIN bi.mix : bi.mix[p] \in UnitRange

(* C13: for every position p of the grid, get_neighbours(p) is exactly the *)
(* set of positions of the grid that are one step from p in one coordinate *)
(* and are no wall; so it has at most 4 elements and holds neither p, nor  *)
(* a wall, nor a position outside the grid.  The same holds of the         *)
(* get_neighbours method of the package ui.py imports, on its own grid.    *)
C13_NeighboursExact ==
    /\ \A p \in Grid :
          /\ get_neighbours(p) = {q \in Grid \ wall_pos : Adjacent(p, q)}
          /\ Cardinality(get_neighbours(p)) <= 4
          /\ p \notin get_neighbours(p)
          /\ get_neighbours(p) \cap wall_pos = {}
          /\ get_neighbours(p) \subseteq Grid
    /\ \A p \in BiDijkstra_grid :
          /\ BiDijkstra_get_neighbours(p)
                = {q \in BiDijkstra_grid \ wall_pos : Adjacent(p, q)}
          /\ Cardinality(BiDijkstra_get_neighbours(p)) <= 4

(* Dijkstra has expanded a node with 4 neighbours, a node next to a wall   *)
(* and a node in a corner of the grid.                                     *)
C13_NeighboursTaken ==
    /\ \E p \in Range(dij.visited_pos) : Cardinality(get_neighbours(p)) = 4
    /\ \E p \in Range(dij.visited_pos) : \E q \in wall_pos : Adjacent(p, q)
    /\ \E p \in Range(dij.visited_pos) :
          /\ Cardinality({q \in Grid : Adjacent(p, q)}) = 2
          /\ Cardinality(get_neighbours(p)) = 2

(* The positions (column, row) within column_amount columns and row_amount *)
(* rows.                                                                   *)
ColumnRowPositions == (0 .. column_amount - 1) \X (0 .. row_amount - 1)

(* C14: with a position read as (column, row), the grid a constructor      *)
(* builds holds a node at each position with column < column_amount and    *)
(* row < row_amount and at no other position, whether the grid is square   *)
(* or not; so a start or an end within these bounds is a node of the grid. *)
C14_GridHoldsColumnRow ==
    \A s \in {dij, ast, bi} :
        /\ DOMAIN s.g = ColumnRowPositions
        /\ start_pos \in ColumnRowPositions => start_pos \in DOMAIN s.g
        /\ end_pos \in ColumnRowPositions => end_pos \in DOMAIN s.g

(* n is in U, no node of U has a smaller g_cost, and no node of U with the *)
(* same g_cost comes before n in the order of the grid rows.               *)
IsFirstSmallest(n, g, U) ==
    /\ n \in U
    /\ \A q \in U : g[n] <= g[q]
    /\ \A q \in U : g[q] = g[n] => (q = n \/ GridBefore(n, q))

(* A call of solve() on s that selects a node and leaves t. *)
Selects(s, t) == s.pc = "solve" /\ t # s /\ s.unvisited_pos # {}

(* C15: in every step of Dijkstra and of BiDijkstra the node selected is   *)
(* an unvisited node of smallest g_cost and, among the unvisited nodes of  *)
(* that g_cost, the first in the order of the grid rows; it is determined  *)
(* by the g_costs and the unvisited set.                                   *)
C15_SelectsFirstSmallest ==
    [][/\ Selects(dij, dij') =>
             IsFirstSmallest(dij'.current_node, dij.g, dij.unvisited_pos)
       /\ Selects(bi, bi') =>
             IsFirstSmallest(bi'.current_node, bi.g, bi.unvisited_pos)
       /\ Selects(dijkstra_1, dijkstra_1') =>
             IsFirstSmallest(dijkstra_1'.current_node, dijkstra_1.g,
                             dijkstra_1.unvisited_pos)
       /\ Selects(disjktra_2, disjktra_2') =>
             IsFirstSmallest(disjktra_2'.current_node, disjktra_2.g,
                             disjktra_2.unvisited_pos)]_vars

(* Dijkstra has expanded two nodes of the same g_cost one after the other, *)
(* and BiDijkstra has expanded a node while a node of the same finite      *)
(* g_cost, later in the grid order, stays unvisited.                       *)
C15_TieDecided ==
    /\ \E i \in 1 .. Len(dij.visited_pos) - 1 :
          /\ dij.g[dij.visited_pos[i]] = dij.g[dij.visited_pos[i + 1]]
          /\ GridBefore(dij.visited_pos[i], dij.visited_pos[i + 1])
    /\ bi.current_node # None
    /\ bi.current_node \notin bi.unvisited_pos
    /\ \E q \in bi.unvisited_pos :
          /\ bi.g[q] = bi.g[bi.current_node]
          /\ bi.g[q] < Inf
          /\ GridBefore(bi.current_node, q)

(* C16: in Dijkstra on valid inputs, once end has left the unvisited set   *)
(* the next step, unless it faults, goes to the path reconstruction        *)
(* without selecting and relaxing another node, and solve() never finishes *)
(* with end expanded and an empty path.                                    *)
C16_EndExpandedThenFound ==
    [][ValidInputs =>
          /\ (/\ dij.pc = "solve" /\ end_pos \notin dij.unvisited_pos
              /\ dij' # dij /\ dij'.pc # "fault")
                => /\ dij'.pc = "backtrack"
                   /\ dij'.current_node = dij.current_node
                   /\ dij'.g = dij.g
          /\ (dij'.pc = "done" /\ end_pos \in Range(dij'.visited_pos))
                => dij'.path # <<>>]_vars

(* A call of solve() on s that leaves t after relaxing the neighbours of   *)
(* the node it selected.                                                   *)
Relaxes(s, t) == Selects(s, t) /\ t.pc # "fault" /\ s.g[t.current_node] < Inf

(* C17: in Dijkstra on valid inputs, every call of solve() that selects a  *)
(* node and relaxes its neighbours appends the position of that node to    *)
(* visited; so visited lists the nodes expanded, in the order of their     *)
(* expansion.                                                              *)
C17_ExpandedIsVisited ==
    [][(ValidInputs /\ Relaxes(dij, dij'))
          => dij'.visited_pos = Append(dij.visited_pos, dij'.current_node)]_vars

(* The unvisited nodes of a whose f_cost is the smallest f_cost of the     *)
(* unvisited set.                                                          *)
SmallestF(a) ==
    {p \in a.unvisited_pos :
        \A q \in a.unvisited_pos : FCost(a.g, a.h)[p] <= FCost(a.g, a.h)[q]}

(* C18: in every step of Astar on valid inputs, when exactly one unvisited *)
(* node has the smallest f_cost of the unvisited set, that node is the one *)
(* selected: the node of smallest h_cost is taken instead only when        *)
(* several unvisited nodes have that f_cost.                               *)
C18_SelectsSmallestF ==
    [][(ValidInputs /\ Selects(ast, ast') /\ Cardinality(SmallestF(ast)) = 1)
          => ast'.current_node \in SmallestF(ast)]_vars

(* The neighbours of n that carry a side tag other than the tag of n. *)
OtherSide(b, n) ==
    {q \in get_neighbours(n) : b.parent[q] # "none" /\ b.parent[q] # b.parent[n]}

(* C19: in BiDijkstra, the step that expands a node with a neighbour       *)
(* tagged with the other side makes such a neighbour middle_node, appends  *)
(* it to visited and is the last to select a node; a step that expands a   *)
(* node without such a neighbour leaves middle_node unset, so middle_node  *)
(* is unset as long as solve() goes on selecting; once middle_node is set, *)
(* no g_cost and no side tag of the grid of BiDijkstra changes and no node *)
(* is selected.                                                            *)
C19_MeetingHalts ==
    [][/\ Relaxes(bi, bi') =>
             IF OtherSide(bi, bi'.current_node) # {}
             THEN /\ bi'.middle_node \in OtherSide(bi, bi'.current_node)
                  /\ bi'.visited_pos
                        = bi.visited_pos \o <<bi'.middle_node, bi'.current_node>>
                  /\ bi'.pc # "solve"
             ELSE bi'.middle_node = None
       /\ bi.pc = "solve" => bi.middle_node = None
       /\ bi.middle_node # None =>
             /\ bi'.g = bi.g
             /\ bi'.parent = bi.parent
             /\ bi'.current_node = bi.current_node
             /\ bi'.middle_node = bi.middle_node]_vars

(* BiDijkstra has met after several expansions, at a node that had two     *)
(* neighbours of the other side, and has finished.                         *)
C19_MetAndFinished ==
    /\ bi.pc = "done"
    /\ bi.middle_node # None
    /\ Len(bi.visited_pos) > 3
    /\ Cardinality(OtherSide(bi, bi.current_node)) > 1

(* The neighbours of p whose position is in the visited sequence of s. *)
VisitedNeighbours(s, p) == get_neighbours(p) \cap Range(s.visited_pos)

(* Every position of the path of s but the last was prepended as a visited *)
(* neighbour, of smallest g_cost, of the position that follows it.         *)
WalksBack(s) ==
    \A i \in 1 .. Len(s.path) - 1 :
        /\ s.path[i] \in VisitedNeighbours(s, s.path[i + 1])
        /\ \A q \in VisitedNeighbours(s, s.path[i + 1]) : s.g[s.path[i]] <= s.g[q]

(* The reconstruction of s goes on until start is prepended and no further. *)
StopsAtStart(s) ==
    /\ \A i \in 2 .. Len(s.path) : s.path[i] # start_pos
    /\ (s.pc = "done" /\ s.path # <<>>) => s.path[1] = start_pos
    /\ s.pc = "backtrack" => start_pos \notin Range(s.path)

(* C20: in the path reconstruction of Dijkstra and of Astar, end being     *)
(* reachable from start, every position prepended after end is a neighbour *)
(* of the position prepended before it, is in visited and has the smallest *)
(* g_cost among the visited neighbours of that position; the walk stops    *)
(* exactly when start has been prepended.                                  *)
C20_WalksBackOverVisited ==
    Reachable => \A s \in {dij, ast} : WalksBack(s) /\ StopsAtStart(s)

(* Every position of the grid is either unvisited or listed once in the    *)
(* visited sequence of s, and not both.                                    *)
Partitioned(s) ==
    /\ s.unvisited_pos \cup Range(s.visited_pos) = Grid
    /\ s.unvisited_pos \cap Range(s.visited_pos) = {}
    /\ \A i, j \in DOMAIN s.visited_pos : i # j => s.visited_pos[i] # s.visited_pos[j]

(* C22: on valid inputs, every step of each of the three solvers, the step *)
(* of the meeting of BiDijkstra included, leaves every grid position in    *)
(* exactly one of unvisited and visited with no position twice in visited, *)
(* and puts no position back into unvisited.                               *)
C22_UnvisitedVisitedPartition ==
    [][ValidInputs =>
          /\ Partitioned(dij') /\ dij'.unvisited_pos \subseteq dij.unvisited_pos
          /\ Partitioned(ast') /\ ast'.unvisited_pos \subseteq ast.unvisited_pos
          /\ Partitioned(bi') /\ bi'.unvisited_pos \subseteq bi.unvisited_pos]_vars

(* path is a walk over free cells that meets no position twice. *)
SimpleWalk(path) ==
    /\ \A i \in 1 .. Len(path) - 1 : Adjacent(path[i], path[i + 1])
    /\ \A i \in DOMAIN path : path[i] \notin wall_pos
    /\ \A i, j \in DOMAIN path : i # j => path[i] # path[j]

(* C23: on valid inputs, when solve() of any of the three solvers finishes *)
(* with a non-empty path, consecutive positions of the path are one step   *)
(* apart, no position of the path is a wall and no position occurs twice;  *)
(* the meeting node of BiDijkstra occurs once.                             *)
C23_PathIsSimpleWalk ==
    ValidInputs =>
        \A s \in {dij, ast, bi} : (s.pc = "done" /\ s.path # <<>>) => SimpleWalk(s.path)

(* From s to t no g_cost grows, and the g_cost of every position that is   *)
(* no longer unvisited in s stays as it is.                                *)
CostsSettle(s, t) ==
    \A p \in Grid :
        /\ t.g[p] <= s.g[p]
        /\ p \notin s.unvisited_pos => t.g[p] = s.g[p]

(* C24: on valid inputs, no step of any of the three solvers increases a   *)
(* g_cost, and no step changes the g_cost of a position that has left the  *)
(* unvisited set, in Astar also when the node expanded was selected by its *)
(* h_cost.                                                                 *)
C24_VisitedCostIsFinal ==
    [][ValidInputs =>
          /\ CostsSettle(dij, dij')
          /\ CostsSettle(ast, ast')
          /\ CostsSettle(bi, bi')]_vars

(* C21: while a call of solve_algorithm plays its result back, the solver  *)
(* instance whose solve() produced the result keeps the wall set, the      *)
(* visited sequence and the path it had when solve() returned, whatever    *)
(* events are handled between two items, and the path the call plays back  *)
(* is the path of that instance.                                           *)
C21_PlaybackKeepsSolver ==
    \A k \in DOMAIN ui.calls :
        LET call == ui.calls[k]
        IN  /\ call.solver.wall_pos = call.returned.wall_pos
            /\ call.solver.visited_pos = call.returned.visited_pos
            /\ call.solver.path = call.returned.path
            /\ call.loop = "path" => call.list = call.returned.path

====
